---- MODULE Spec2Model ----
(***************************************************************************)
(* Model of the real-estate agent: the repository table and its filters    *)
(* (tools/repository.py), the P&L calculations (tools/calculations.py),    *)
(* the five-node LangGraph workflow (graph/app_graph.py) and the chat turn *)
(* of the Streamlit front end (app.py).                                    *)
(*                                                                         *)
(* Conventions                                                             *)
(*   Optional[T]   a sequence of length <= 1: <<>> is None/NaN, <<x>> is x *)
(*   property name a sequence of one-character strings, so that lower(),   *)
(*                 strip(), "in" and the sort order are computed           *)
(*   float         an integer-valued binary float with MantissaBits bits   *)
(*                 of significand, rounded to nearest, ties to even        *)
(***************************************************************************)
EXTENDS Integers, Sequences, FiniteSets, TLC

VARIABLES df, session, pc, state, trace, before, turns, nextId, call, ret

vars == <<df, session, pc, state, trace, before, turns, nextId, call, ret>>

(***************************************************************************)
(* Bounds of the model                                                     *)
(***************************************************************************)
MaxNameLen == 2
MaxRows == 2
MaxProps == 2
MaxTurns == 2
MantissaBits == 3
MaxLedger == 3

None == <<>>
Some(x) == <<x>>

(***************************************************************************)
(* Character strings                                                       *)
(***************************************************************************)
\* the alphabet in code-point order: space < 'A' < 'a' < 'b'
Chars == <<" ", "A", "a", "b">>

Code(c) == CHOOSE i \in 1..Len(Chars) : Chars[i] = c

CharSet == {Chars[i] : i \in 1..Len(Chars)}

Strings == UNION {[1..n -> CharSet] : n \in 0..MaxNameLen}

\* str.lower() on one character
LowerChar(c) == IF c = "A" THEN "a" ELSE c

\* str.lower()
Lower(s) == [i \in 1..Len(s) |-> LowerChar(s[i])]

IsSpace(c) == c = " "

RECURSIVE LStrip(_)
LStrip(s) == IF s # <<>> /\ IsSpace(Head(s)) THEN LStrip(Tail(s)) ELSE s

RECURSIVE RStrip(_)
RStrip(s) ==
  IF s # <<>> /\ IsSpace(s[Len(s)]) THEN RStrip(SubSeq(s, 1, Len(s) - 1)) ELSE s

\* str.strip()
Strip(s) == RStrip(LStrip(s))

\* the Python test  q in s  on strings
Contains(s, q) ==
  \E i \in 1..(Len(s) + 1) :
     /\ i + Len(q) - 1 <= Len(s)
     /\ SubSeq(s, i, i + Len(q) - 1) = q

\* the order of Python strings: lexicographic by code point
StrLess(s, t) ==
  \E i \in 1..(Len(t)) :
     /\ \A j \in 1..(i - 1) : j <= Len(s) /\ s[j] = t[j]
     /\ \/ Len(s) = i - 1
        \/ Len(s) >= i /\ Code(s[i]) < Code(t[i])

\* s[:n]
Take(s, n) == SubSeq(s, 1, IF n < Len(s) THEN n ELSE Len(s))

(***************************************************************************)
(* tools/repository.py                                                     *)
(***************************************************************************)
\* _norm on an optional string
norm(s) ==
  IF s = None THEN None
  ELSE IF Strip(s[1]) = <<>> THEN None ELSE Some(Strip(s[1]))

\* the property names a loaded table can hold
NormNames == {norm(Some(s)) : s \in Strings}

RECURSIVE SortStrings(_)
SortStrings(S) ==
  IF S = {} THEN <<>>
  ELSE LET m == CHOOSE x \in S : \A y \in S \ {x} : StrLess(x, y)
       IN  <<m>> \o SortStrings(S \ {m})

\* Repo.list_properties: dropna, drop_duplicates, sort_values
list_properties(t) ==
  SortStrings({t[i].property_name[1] :
                 i \in {k \in 1..Len(t) : t[k].property_name # None}})

\* Repo.search_property
search_property(t, query, limit) ==
  LET q == Strip(Lower(query))
      props == list_properties(t)
      Hit(p) == Contains(Lower(p), q)
      hits == SelectSeq(props, Hit)
  IN  IF hits # <<>> THEN Take(hits, limit) ELSE Take(props, limit)

\* the atomic strings of the table's other columns, in Python's string order
Atoms == <<"", "2024-M12", "2024-Q4", "2025-M01", "2025-Q1", "T1", "T2",
           "c1", "c2", "expenses", "g1", "g2", "other", "revenue">>

Rank(a) == CHOOSE i \in 1..Len(Atoms) : Atoms[i] = a

\* Series.fillna("") on a string column
FillNa(x, empty) == IF x = None THEN empty ELSE x[1]

\* filter_timeframe whose quarter filter starts again from the whole table
filter_timeframe_restart(t, year, quarter, month) ==
  LET ByYear(r) == r.year_int # None /\ r.year_int[1] = year[1]
      ByQuarter(r) == r.quarter # None /\ r.quarter[1] = quarter[1]
      ByMonth(r) == r.month # None /\ r.month[1] = month[1]
      d1 == IF year # None THEN SelectSeq(t, ByYear) ELSE t
      d2 == IF quarter # None THEN SelectSeq(t, ByQuarter) ELSE d1
      d3 == IF month # None THEN SelectSeq(d2, ByMonth) ELSE d2
  IN  d3

\* Repo.filter_timeframe
filter_timeframe(t, year, quarter, month) ==
  LET ByYear(r) == r.year_int # None /\ r.year_int[1] = year[1]
      ByQuarter(r) == r.quarter # None /\ r.quarter[1] = quarter[1]
      ByMonth(r) == r.month # None /\ r.month[1] = month[1]
      d1 == IF year # None THEN SelectSeq(t, ByYear) ELSE t
      d2 == IF quarter # None THEN SelectSeq(d1, ByQuarter) ELSE d1
      d3 == IF month # None THEN SelectSeq(d2, ByMonth) ELSE d2
  IN  d3

\* Repo.filter_property
filter_property(t, property_name) ==
  LET Keep(r) == FillNa(r.property_name, <<>>) = property_name[1]
  IN  IF property_name = None THEN t ELSE SelectSeq(t, Keep)

\* Repo.filter_tenant
filter_tenant(t, tenant_name) ==
  LET Keep(r) == FillNa(r.tenant_name, "") = tenant_name[1]
  IN  IF tenant_name = None THEN t ELSE SelectSeq(t, Keep)

(***************************************************************************)
(* Floating point: the sums are float64 sums taken in row order            *)
(***************************************************************************)
Abs(x) == IF x < 0 THEN -x ELSE x

RECURSIVE Pow2(_)
Pow2(n) == IF n = 0 THEN 1 ELSE 2 * Pow2(n - 1)

\* the spacing of the floats around the magnitude m
RECURSIVE Ulp(_, _)
Ulp(m, q) == IF m < q * Pow2(MantissaBits) THEN q ELSE Ulp(m, 2 * q)

\* round to nearest, ties to even
Round(x) ==
  LET m == Abs(x)
      q == Ulp(m, 1)
      lo == (m \div q) * q
      rem == m - lo
      r == IF 2 * rem < q THEN lo
           ELSE IF 2 * rem > q THEN lo + q
           ELSE IF (lo \div q) % 2 = 0 THEN lo ELSE lo + q
  IN  IF x < 0 THEN -r ELSE r

\* float64 addition
FAdd(a, b) == Round(a + b)

\* Series.sum() of the profit column
RECURSIVE SumFrom(_, _, _)
SumFrom(t, i, acc) ==
  IF i > Len(t) THEN acc ELSE SumFrom(t, i + 1, FAdd(acc, t[i].profit))

SumProfit(t) == SumFrom(t, 1, 0)

(***************************************************************************)
(* tools/calculations.py                                                   *)
(***************************************************************************)
\* pnl whose net leaves out the expenses
pnl_revenue_only(t) ==
  LET IsRevenue(r) == r.ledger_type = Some("revenue")
      IsExpenses(r) == r.ledger_type = Some("expenses")
  IN  [revenue |-> SumProfit(SelectSeq(t, IsRevenue)),
       expenses |-> SumProfit(SelectSeq(t, IsExpenses)),
       net |-> SumProfit(SelectSeq(t, IsRevenue))]

\* pnl
pnl(t) ==
  LET IsRevenue(r) == r.ledger_type = Some("revenue")
      IsExpenses(r) == r.ledger_type = Some("expenses")
  IN  [revenue |-> SumProfit(SelectSeq(t, IsRevenue)),
       expenses |-> SumProfit(SelectSeq(t, IsExpenses)),
       net |-> SumProfit(t)]

\* property_summary
property_summary(t, property_name, year, quarter, month) ==
  pnl(filter_property(filter_timeframe(t, year, quarter, month), property_name))

ValueError == [raised |-> "ValueError"]

\* compare_properties that does not pass the year on
compare_properties_no_year(t, property_names, year, quarter, month) ==
  IF Len(property_names) < 2 THEN ValueError
  ELSE LET results ==
             [i \in 1..Len(property_names) |->
                LET s == property_summary(t, Some(property_names[i]),
                                          None, quarter, month)
                IN  [property |-> property_names[i], revenue |-> s.revenue,
                     expenses |-> s.expenses, net |-> s.net]]
       IN  [properties |-> results, count |-> Len(results)]

\* compare_properties
compare_properties(t, property_names, year, quarter, month) ==
  IF Len(property_names) < 2 THEN ValueError
  ELSE LET results ==
             [i \in 1..Len(property_names) |->
                LET s == property_summary(t, Some(property_names[i]),
                                          year, quarter, month)
                IN  [property |-> property_names[i], revenue |-> s.revenue,
                     expenses |-> s.expenses, net |-> s.net]]
       IN  [properties |-> results, count |-> Len(results)]

\* the groups of groupby(group_by, dropna=False), in key order, NaN last
KeyLess(a, b) ==
  IF a = None THEN FALSE
  ELSE IF b = None THEN TRUE ELSE Rank(a[1]) < Rank(b[1])

\* sort_values() of the group sums: ascending, equal sums stay in key order
RECURSIVE SortGroups(_, _)
SortGroups(K, total) ==
  IF K = {} THEN <<>>
  ELSE LET m == CHOOSE x \in K : \A y \in K \ {x} :
                   \/ total[x] < total[y]
                   \/ total[x] = total[y] /\ KeyLess(x, y)
       IN  <<m>> \o SortGroups(K \ {m}, total)

\* top_expenses
top_expenses(t, property_name, year, quarter, month, group_by, top_n) ==
  LET IsExpenses(r) == r.ledger_type = Some("expenses")
      d == SelectSeq(filter_property(filter_timeframe(t, year, quarter, month),
                                     property_name), IsExpenses)
      K == {d[i][group_by] : i \in 1..Len(d)}
      total == [k \in K |->
                  LET InGroup(r) == r[group_by] = k
                  IN  SumProfit(SelectSeq(d, InGroup))]
      g == SortGroups(K, total)
      h == IF top_n = None THEN g ELSE Take(g, top_n[1])
  IN  [i \in 1..Len(h) |->
         [group_by |-> group_by,
          key |-> IF h[i] = None THEN "nan" ELSE h[i][1],
          expense |-> total[h[i]]]]

(***************************************************************************)
(* graph/app_graph.py                                                      *)
(***************************************************************************)
Intents == {"list_properties", "property_summary", "compare_properties",
            "asset_details", "top_expenses", "tenant_summary", "fallback"}

\* what slots.get(...) yields on an empty slots dict
EmptySlots ==
  [properties |-> <<>>, tenants |-> <<>>, year |-> None, quarter |-> None,
   month |-> None, breakdown_by |-> None, top_n |-> Some(8)]

InSeq(x, s) == \E i \in 1..Len(s) : s[i] = x

\* calc, one round of the validation loop: the name to use, or None
validate_one(t, p) ==
  LET valid_properties == list_properties(t)
      matches == search_property(t, p, 1)
  IN  IF InSeq(p, valid_properties) THEN Some(p)
      ELSE IF matches # <<>> /\ Lower(matches[1]) = Lower(p)
           THEN Some(matches[1])
           ELSE None

\* calc, the validation loop: validated_props and invalid_props
RECURSIVE validate_from(_, _, _, _, _)
validate_from(t, props, i, validated_props, invalid_props) ==
  IF i > Len(props)
  THEN [validated_props |-> validated_props, invalid_props |-> invalid_props]
  ELSE LET v == validate_one(t, props[i])
       IN  IF v # None
           THEN validate_from(t, props, i + 1,
                              Append(validated_props, v[1]), invalid_props)
           ELSE validate_from(t, props, i + 1,
                              validated_props, Append(invalid_props, props[i]))

validate_props(t, props) == validate_from(t, props, 1, <<>>, <<>>)

\* the clarification questions of calc; template names the f-string
InvalidPropertyQuestion(name, valid_properties) ==
  [template |-> "The property address '{}' does not exist in the dataset. Available properties: {}...",
   name |-> Some(name), examples |-> Take(valid_properties, 3)]

WhichPropertyQuestion(valid_properties) ==
  [template |-> "Which property would you like details for? For example: {}",
   name |-> None, examples |-> Take(valid_properties, 3)]

TwoPropertiesQuestion(valid_properties) ==
  [template |-> "Please specify at least two properties to compare. For example: {}",
   name |-> None, examples |-> Take(valid_properties, 2)]

WhichTenantQuestion ==
  [template |-> "Which tenant do you want to analyze?",
   name |-> None, examples |-> <<>>]

Clarification(q) == [need_clarification |-> TRUE, clarification_question |-> q]

Computed(res) == [result |-> res, need_clarification |-> FALSE]

EntirePortfolio == <<"Entire Portfolio">>

\* Series.dropna().unique().tolist()
RECURSIVE Unique(_, _, _, _)
Unique(t, col, i, acc) ==
  IF i > Len(t) THEN acc
  ELSE IF t[i][col] = None \/ InSeq(t[i][col][1], acc)
       THEN Unique(t, col, i + 1, acc)
       ELSE Unique(t, col, i + 1, Append(acc, t[i][col][1]))

\* calc, the branch on intent once the properties are validated
compute(t, intent, props, tenants, year, quarter, month, breakdown_by, top_n) ==
  LET period == [year |-> year, quarter |-> quarter, month |-> month]
      valid_properties == list_properties(t)
      prop == IF props # <<>> THEN Some(props[1]) ELSE None
      d == filter_timeframe(t, year, quarter, month)
  IN  CASE intent = "list_properties" ->
             Computed([properties |-> valid_properties])
        [] intent = "property_summary" ->
             Computed([property |-> IF prop # None THEN prop[1] ELSE EntirePortfolio,
                       period |-> period,
                       pnl |-> pnl(IF prop # None /\ prop[1] # <<>>
                                   THEN filter_property(d, prop) ELSE d)])
        [] intent = "compare_properties" ->
             LET comparison == compare_properties(t, props, year, quarter, month)
             IN  IF comparison = ValueError THEN ValueError
                 ELSE Computed([comparison |-> comparison, period |-> period])
        [] intent = "top_expenses" ->
             Computed([property_opt |-> prop, period |-> period,
                       top_expenses |-> top_expenses(t, prop, year, quarter, month,
                                                     breakdown_by, top_n)])
        [] intent = "asset_details" ->
             IF props = <<>>
             THEN Clarification(WhichPropertyQuestion(valid_properties))
             ELSE LET dp == filter_property(d, prop)
                  IN  Computed([property |-> prop[1], period |-> period,
                                pnl |-> pnl(dp),
                                tenants |-> Take(Unique(dp, "tenant_name", 1, <<>>), 5),
                                ledger_groups |-> Unique(dp, "ledger_group", 1, <<>>),
                                total_records |-> Len(dp)])
        [] intent = "tenant_summary" ->
             IF tenants = <<>> THEN Clarification(WhichTenantQuestion)
             ELSE Computed([tenant |-> tenants[1], period |-> period,
                            pnl |-> pnl(filter_tenant(d, Some(tenants[1])))])
        [] OTHER -> Computed([note |-> "fallback"])

\* the guard of asset_details applied to every intent
needs_property_any_intent(intent, props) == props = <<>>

\* calc, the guard before the asset_details branch
needs_property(intent, props) == intent = "asset_details" /\ props = <<>>

\* the guard of compare_properties off by one
needs_two_properties_off_by_one(intent, props) ==
  intent = "compare_properties" /\ Len(props) < 1

\* calc, the guard before the compare_properties branch
needs_two_properties(intent, props) ==
  intent = "compare_properties" /\ Len(props) < 2

\* the question naming the last invalid property
named_invalid_last(invalid_props) == invalid_props[Len(invalid_props)]

\* calc, the property the invalid-property question names
named_invalid(invalid_props) == invalid_props[1]

\* calc: the update the node returns, or ValueError when it raises
calc(t, st) ==
  LET intent == IF "intent" \in DOMAIN st THEN st.intent ELSE "fallback"
      slots == IF "slots" \in DOMAIN st THEN st.slots ELSE EmptySlots
      breakdown_by == IF slots.breakdown_by = None THEN "ledger_group"
                      ELSE slots.breakdown_by[1]
      valid_properties == list_properties(t)
      v == validate_props(t, slots.properties)
      props == v.validated_props
  IN  IF v.invalid_props # <<>>
      THEN Clarification(InvalidPropertyQuestion(named_invalid(v.invalid_props),
                                                 valid_properties))
      ELSE IF needs_property(intent, props)
      THEN Clarification(WhichPropertyQuestion(valid_properties))
      ELSE IF needs_two_properties(intent, props)
      THEN Clarification(TwoPropertiesQuestion(valid_properties))
      ELSE compute(t, intent, props, slots.tenants, slots.year, slots.quarter,
                   slots.month, breakdown_by, slots.top_n)

\* dict.get(key, default)
Get(r, k, default) == IF k \in DOMAIN r THEN r[k] ELSE default

EmptyDict == [k \in {} |-> 0]

ZeroPnl == [revenue |-> 0, expenses |-> 0, net |-> 0]

\* respond: the assistant message; template names the f-string and the
\* other fields are the values it formats
respond(st) ==
  LET intent == Get(st, "intent", "fallback")
      res == Get(st, "result", EmptyDict)
      pnl_ == Get(res, "pnl", ZeroPnl)
      text ==
        CASE intent = "list_properties" ->
               [template |-> "Your portfolio contains the following properties: {}",
                properties |-> Get(res, "properties", <<>>)]
          [] intent = "property_summary" ->
               IF Get(res, "property", EntirePortfolio) = EntirePortfolio
               THEN [template |-> "The total P&L for all your properties is ${}.",
                     net |-> pnl_.net]
               ELSE [template |-> "The P&L for {} is ${} (Revenue: ${}, Expenses: ${}).",
                     property |-> res.property, net |-> pnl_.net,
                     revenue |-> pnl_.revenue, expenses |-> pnl_.expenses]
          [] intent = "compare_properties" ->
               LET properties == Get(Get(res, "comparison", EmptyDict),
                                     "properties", <<>>)
               IN  [template |-> "the asset at {} has a Net P&L of ${}, while ...",
                    parts |-> [i \in 1..Len(properties) |->
                                 [property |-> properties[i].property,
                                  net |-> properties[i].net]]]
          [] intent = "asset_details" ->
               [template |-> "Details for the property at {}: Net P&L - ${}, Total Revenue - ${}, Total Expenses - ${}.",
                property |-> Get(res, "property", <<"N/A">>), net |-> pnl_.net,
                revenue |-> pnl_.revenue, expenses |-> pnl_.expenses]
          [] intent = "top_expenses" ->
               LET items == Get(res, "top_expenses", <<>>)
               IN  [template |-> "Top expenses for {}: {}.",
                    property_opt |-> Get(res, "property_opt", None),
                    lines |-> [i \in 1..Len(items) |->
                                 [ledger_group |->
                                    IF items[i].group_by = "ledger_group"
                                    THEN items[i].key ELSE "N/A",
                                  expense |-> items[i].expense]]]
          [] intent = "tenant_summary" ->
               [template |-> "Tenant {} generated a Net P&L of ${}.",
                tenant |-> Get(res, "tenant", "N/A"), net |-> pnl_.net]
          [] OTHER ->
               [template |-> "I can help you with property details, P&L calculations, comparisons, and expense analysis. Just ask!"]
  IN  [messages |-> << [role |-> "assistant", content |-> text, id |-> None] >>]

DefaultQuestion ==
  [template |-> "Please clarify your request.", name |-> None, examples |-> <<>>]

\* clarify
clarify(st) ==
  LET q == Get(st, "clarification_question", DefaultQuestion)
  IN  [messages |-> << [role |-> "assistant", content |-> q, id |-> None] >>]

\* after_calc with the branches exchanged
after_calc_exchanged(st) ==
  IF Get(st, "need_clarification", FALSE) THEN "respond" ELSE "clarify"

\* after_calc
after_calc(st) ==
  IF Get(st, "need_clarification", FALSE) THEN "clarify" ELSE "respond"

(***************************************************************************)
(* The messages channel: langgraph's add_messages reducer                  *)
(***************************************************************************)
\* messages without an id get a fresh one (uuid4), counted from n
RECURSIVE WithIds(_, _)
WithIds(msgs, n) ==
  IF msgs = <<>> THEN <<>>
  ELSE IF Head(msgs).id = None
       THEN <<[Head(msgs) EXCEPT !.id = Some(n)]>> \o WithIds(Tail(msgs), n + 1)
       ELSE <<Head(msgs)>> \o WithIds(Tail(msgs), n)

NoId(m) == m.id = None

CountNoId(msgs) == Len(SelectSeq(msgs, NoId))

\* a message of right replaces the message of merged with its id, or is appended
RECURSIVE MergeById(_, _)
MergeById(merged, right) ==
  IF right = <<>> THEN merged
  ELSE LET m == Head(right)
           same == {i \in 1..Len(merged) : merged[i].id = m.id}
       IN  IF same # {}
           THEN MergeById([merged EXCEPT ![CHOOSE i \in same : TRUE] = m],
                          Tail(right))
           ELSE MergeById(Append(merged, m), Tail(right))

\* add_messages that leaves new messages without an id
add_messages_no_ids(left, right, n) == MergeById(left, right)


add_messages(left, right, n) ==
  MergeById(WithIds(left, n), WithIds(right, n + CountNoId(left)))

\* a node's update applied to the graph state: messages through the reducer,
\* every other key overwritten
Apply(st, upd, n) ==
  IF "messages" \in DOMAIN upd
  THEN [st EXCEPT !.messages = add_messages(st.messages, upd.messages, n)]
  ELSE upd @@ st

(***************************************************************************)
(* The tables and inputs the specifications range over                     *)
(***************************************************************************)
Row(property_name, tenant_name, ledger_type, ledger_group, profit, year_int, quarter, month) ==
  [property_name |-> property_name, tenant_name |-> tenant_name,
   ledger_type |-> ledger_type, ledger_group |-> ledger_group,
   ledger_category |-> Some("c1"), profit |-> profit,
   year_int |-> year_int, quarter |-> quarter, month |-> month]

SeqsUpTo(S, n) == UNION {[1..k -> S] : k \in 0..n}

Slots(properties, tenants, year, quarter, month, breakdown_by, top_n) ==
  [properties |-> properties, tenants |-> tenants, year |-> year,
   quarter |-> quarter, month |-> month, breakdown_by |-> breakdown_by,
   top_n |-> top_n]

NoCall == [fn |-> "none"]

NoRet == [none |-> TRUE]

(***************************************************************************)
(* Spec: the chat turn of app.py driving the compiled graph                *)
(***************************************************************************)
ChatRows ==
  <<Row(Some(<<"a">>), Some("T1"), Some("revenue"), Some("g1"), 2, Some(2024),
        Some("2024-Q4"), Some("2024-M12")),
    Row(Some(<<"A", "b">>), None, Some("expenses"), Some("g1"), -1, Some(2024),
        Some("2024-Q4"), Some("2024-M12"))>>

ChatTables == {<<>>, <<ChatRows[1]>>, <<ChatRows[2]>>, ChatRows}

ChatSlots ==
  {Slots(ps, ts, None, None, None, None, Some(8)) :
     ps \in SeqsUpTo({<<"a">>, <<"b">>}, MaxProps),
     ts \in {<<>>, <<"T1">>}}

UserTexts == {"question"}

Confidences == {0, 1}

Greeting ==
  [role |-> "assistant",
   content |-> [template |-> "Hello! I can help you analyze your real estate portfolio. ..."],
   id |-> None]

HumanMessage(text) ==
  [role |-> "user", content |-> [template |-> "{}", text |-> text], id |-> None]

Init ==
  /\ df \in ChatTables
  /\ session = <<Greeting>>
  /\ pc = "idle"
  /\ state = EmptyDict
  /\ trace = <<>>
  /\ before = [history |-> <<>>, text |-> ""]
  /\ turns = 0
  /\ nextId = 1
  /\ call = NoCall
  /\ ret = NoRet

\* app.py: the user's message is appended and the graph is invoked on the
\* history; the input passes the messages reducer
UserInput(text) ==
  /\ pc = "idle"
  /\ turns < MaxTurns
  /\ LET input == Append(session, HumanMessage(text))
     IN  /\ before' = [history |-> session, text |-> text]
         /\ session' = WithIds(input, nextId)
         /\ state' = [messages |-> add_messages(<<>>, input, nextId)]
         /\ nextId' = nextId + CountNoId(input)
  /\ trace' = <<>>
  /\ pc' = "router"
  /\ UNCHANGED <<df, turns, call, ret>>

\* router: the classifier's answer is any RouterOut
Router(intent, confidence) ==
  /\ pc = "router"
  /\ state' = Apply(state, [intent |-> intent, confidence |-> confidence], nextId)
  /\ trace' = Append(trace, "router")
  /\ pc' = "extractor"
  /\ UNCHANGED <<df, session, before, turns, nextId, call, ret>>

\* extractor: the extractor's answer is any SlotOut
Extractor(slots) ==
  /\ pc = "extractor"
  /\ state' = Apply(state, [slots |-> slots], nextId)
  /\ trace' = Append(trace, "extractor")
  /\ pc' = "calc"
  /\ UNCHANGED <<df, session, before, turns, nextId, call, ret>>

\* calc, followed by the conditional edge after_calc
Calc ==
  /\ pc = "calc"
  /\ LET upd == calc(df, state)
     IN  IF upd = ValueError
         THEN /\ pc' = "raised"
              /\ state' = state
         ELSE /\ state' = Apply(state, upd, nextId)
              /\ pc' = after_calc(state')
  /\ trace' = Append(trace, "calc")
  /\ UNCHANGED <<df, session, before, turns, nextId, call, ret>>

Clarify ==
  /\ pc = "clarify"
  /\ state' = Apply(state, clarify(state), nextId)
  /\ nextId' = nextId + 1
  /\ trace' = Append(trace, "clarify")
  /\ pc' = "end"
  /\ UNCHANGED <<df, session, before, turns, call, ret>>

Respond ==
  /\ pc = "respond"
  /\ state' = Apply(state, respond(state), nextId)
  /\ nextId' = nextId + 1
  /\ trace' = Append(trace, "respond")
  /\ pc' = "end"
  /\ UNCHANGED <<df, session, before, turns, call, ret>>

\* app.py: the graph's messages become the session's history
Finish ==
  /\ pc = "end"
  /\ session' = state.messages
  /\ turns' = turns + 1
  /\ pc' = "idle"
  /\ UNCHANGED <<df, state, trace, before, nextId, call, ret>>

Next ==
  \/ \E text \in UserTexts : UserInput(text)
  \/ \E intent \in Intents, confidence \in Confidences : Router(intent, confidence)
  \/ \E slots \in ChatSlots : Extractor(slots)
  \/ Calc
  \/ Clarify
  \/ Respond
  \/ Finish

Spec == Init /\ [][Next]_vars

(***************************************************************************)
(* SpecCalc: the calc node as a function of the table, intent and slots    *)
(***************************************************************************)
CalcRows ==
  {Row(p, IF lt = "revenue" THEN Some("T1") ELSE None, Some(lt), Some("g1"),
       1, Some(2024), Some("2024-Q4"), Some("2024-M12")) :
     p \in {None, Some(<<"a">>), Some(<<"A", "b">>)},
     lt \in {"revenue"}}
    \cup {Row(Some(<<"a">>), None, Some("expenses"), Some("g1"), -1, Some(2024),
               Some("2024-Q4"), Some("2024-M12"))}

CalcSlots ==
  {Slots(ps, ts, y, None, None, o[1], o[2]) :
     ps \in SeqsUpTo({<<"a">>, <<"A">>, <<"b">>}, MaxProps),
     ts \in {<<>>, <<"T1">>},
     y \in {None, Some(2025)},
     o \in {<<None, Some(1)>>, <<Some("tenant_name"), None>>}}

InitCalc ==
  /\ df \in SeqsUpTo(CalcRows, MaxRows)
  /\ call \in {[fn |-> "calc", st |-> [intent |-> i, slots |-> sl]] :
                 i \in Intents, sl \in CalcSlots}
  /\ ret = NoRet
  /\ pc = "call"
  /\ session = <<>>
  /\ state = EmptyDict
  /\ trace = <<>>
  /\ before = [history |-> <<>>, text |-> ""]
  /\ turns = 0
  /\ nextId = 1

CalcCall ==
  /\ pc = "call"
  /\ call.fn = "calc"
  /\ ret' = calc(df, call.st)
  /\ pc' = "return"
  /\ UNCHANGED <<df, session, state, trace, before, turns, nextId, call>>

NextCalc == CalcCall

SpecCalc == InitCalc /\ [][NextCalc]_vars

(***************************************************************************)
(* Properties of the graph and of the chat turn (Spec)                     *)
(***************************************************************************)
IsPrefix(s, t) == Len(s) <= Len(t) /\ \A i \in 1..Len(s) : s[i] = t[i]

RunFinished == pc = "end" \/ (pc = "idle" /\ turns > 0)

\* C1: a run executes router, extractor, calc and then exactly one of
\* clarify or respond, each node at most once, and ends; clarify runs iff
\* calc left need_clarification true, respond iff it did not
C1_NodeOrder ==
  /\ pc \in {"idle", "router", "extractor", "calc", "clarify", "respond", "end"}
  /\ \/ IsPrefix(trace, <<"router", "extractor", "calc", "clarify">>)
     \/ IsPrefix(trace, <<"router", "extractor", "calc", "respond">>)
  /\ pc = "router" => trace = <<>>
  /\ pc = "extractor" => trace = <<"router">>
  /\ pc = "calc" => trace = <<"router", "extractor">>
  /\ pc \in {"clarify", "respond"} => trace = <<"router", "extractor", "calc">>
  /\ RunFinished =>
       /\ Len(trace) = 4
       /\ (InSeq("clarify", trace) <=>
             ("need_clarification" \in DOMAIN state /\ state.need_clarification))
       /\ (InSeq("respond", trace) <=>
             ~("need_clarification" \in DOMAIN state /\ state.need_clarification))

C1_Witness ==
  /\ pc = "end"
  /\ trace = <<"router", "extractor", "calc", "clarify">>
  /\ turns = 1

Shown(m) == [role |-> m.role, content |-> m.content]

\* C2: after a completed turn the history is the history before the turn,
\* then the user's message, then exactly one assistant message, which is
\* the answer or the clarification question of the run
C2_TurnAppendsTwo ==
  pc = "idle" =>
    /\ session[Len(session)].role = "assistant"
    /\ (turns > 0) =>
         LET n == Len(before.history)
         IN  /\ Len(session) = n + 2
             /\ \A i \in 1..n : Shown(session[i]) = Shown(before.history[i])
             /\ Shown(session[n + 1]) = Shown(HumanMessage(before.text))
             /\ session[n + 2].role = "assistant"
             /\ \/ /\ InSeq("respond", trace)
                   /\ session[n + 2].content = respond(state).messages[1].content
                \/ /\ InSeq("clarify", trace)
                   /\ "clarification_question" \in DOMAIN state
                   /\ session[n + 2].content = state.clarification_question

C2_Witness ==
  /\ pc = "idle"
  /\ turns = 2
  /\ Len(session) = 5
  /\ InSeq("respond", trace)

(***************************************************************************)
(* Properties of calc (SpecCalc)                                           *)
(***************************************************************************)
IsResult(r) ==
  /\ DOMAIN r = {"result", "need_clarification"}
  /\ r.need_clarification = FALSE

IsClarification(r) ==
  /\ DOMAIN r = {"need_clarification", "clarification_question"}
  /\ r.need_clarification = TRUE
  /\ r.clarification_question.template # ""

Returned == pc = "return" /\ call.fn = "calc"

\* C3: for every intent and every slots, calc ends either with a result and
\* need_clarification false, or with need_clarification true, a non-empty
\* question and no result; it never raises (the ValueError of
\* compare_properties is not reached)
C3_TwoOutcomes ==
  Returned => /\ ret # ValueError
              /\ (IsResult(ret) \/ IsClarification(ret))
              /\ ~(IsResult(ret) /\ IsClarification(ret))

C3_Witness ==
  /\ Returned
  /\ call.st.intent = "compare_properties"
  /\ Len(call.st.slots.properties) = 2
  /\ IsResult(ret)

\* C4: calc asks for a clarification when asset_details has no property,
\* compare_properties has fewer than two or tenant_summary has no tenant;
\* every other intent with only valid property names produces a result
C4_RequiredParameters ==
  Returned =>
    LET intent == call.st.intent
        v == validate_props(df, call.st.slots.properties)
    IN  /\ (intent = "asset_details" /\ v.validated_props = <<>>)
             => IsClarification(ret)
        /\ (intent = "compare_properties" /\ Len(v.validated_props) < 2)
             => IsClarification(ret)
        /\ (intent = "tenant_summary" /\ call.st.slots.tenants = <<>>)
             => IsClarification(ret)
        /\ (intent \in {"list_properties", "property_summary",
                         "top_expenses", "fallback"}
              /\ v.invalid_props = <<>>)
             => IsResult(ret)

C4_Witness ==
  /\ Returned
  /\ call.st.intent = "compare_properties"
  /\ Len(call.st.slots.properties) = 1
  /\ validate_props(df, call.st.slots.properties).invalid_props = <<>>
  /\ IsClarification(ret)

\* the first extracted property that validation does not accept
FirstFailing(t, props) ==
  LET bad == {i \in 1..Len(props) : validate_one(t, props[i]) = None}
  IN  props[CHOOSE i \in bad : \A j \in bad : i <= j]

\* C6: when some extracted property fails validation, calc returns the
\* clarification naming the first failing property in extraction order and
\* computes nothing, whatever the intent
C6_ValidationFirst ==
  Returned =>
    LET props == call.st.slots.properties
    IN  (\E i \in 1..Len(props) : validate_one(df, props[i]) = None) =>
          /\ IsClarification(ret)
          /\ ret.clarification_question.name = Some(FirstFailing(df, props))

C6_Witness ==
  /\ Returned
  /\ call.st.intent = "list_properties"
  /\ call.st.slots.properties = << <<"a">>, <<"b">> >>
  /\ list_properties(df) = << <<"a">> >>
  /\ ret.clarification_question.name = Some(<<"b">>)

(***************************************************************************)
(* SpecValidate: calc on one extracted property name, over every table of  *)
(* normalised property names and every name the extractor can return       *)
(***************************************************************************)
Pending ==
  /\ ret = NoRet
  /\ pc = "call"
  /\ session = <<>>
  /\ state = EmptyDict
  /\ trace = <<>>
  /\ before = [history |-> <<>>, text |-> ""]
  /\ turns = 0
  /\ nextId = 1

NameRows ==
  {Row(p, Some("T1"), Some("revenue"), Some("g1"), 1, Some(2024),
       Some("2024-Q4"), Some("2024-M12")) : p \in NormNames}

InitValidate ==
  /\ df \in SeqsUpTo(NameRows, MaxRows)
  /\ call \in {[fn |-> "calc",
                st |-> [intent |-> i,
                        slots |-> Slots(<<p>>, <<>>, None, None, None, None,
                                        Some(8))]] :
                 i \in {"property_summary", "asset_details"}, p \in Strings}
  /\ Pending

SpecValidate == InitValidate /\ [][NextCalc]_vars

Years == {None, Some(2024), Some(2025)}

Quarters == {None, Some("2024-Q4"), Some("2025-Q1")}

Months == {None, Some("2024-M12"), Some("2025-M01")}

TimeRows ==
  {Row(Some(<<"a">>), None, Some("revenue"), Some("g1"), 1, y, q, m) :
     y \in Years, q \in Quarters, m \in {None, Some("2024-M12")}}

InitFilter ==
  /\ df \in SeqsUpTo(TimeRows, MaxRows)
  /\ call \in {[fn |-> "filter_timeframe", year |-> y, quarter |-> q, month |-> m] :
                 y \in Years, q \in Quarters, m \in Months}
  /\ Pending

FilterCall ==
  /\ pc = "call"
  /\ call.fn = "filter_timeframe"
  /\ ret' = [rows |-> filter_timeframe(df, call.year, call.quarter, call.month)]
  /\ df' = df
  /\ pc' = "return"
  /\ UNCHANGED <<session, state, trace, before, turns, nextId, call>>

NextFilter == FilterCall

SpecFilter == InitFilter /\ [][NextFilter]_vars

\* the year a quarter or month string names (QUARTER_RE, MONTH_RE)
YearOf(p) ==
  CASE p \in {"2024-Q4", "2024-M12"} -> 2024
    [] p \in {"2025-Q1", "2025-M01"} -> 2025

\* the years named by the non-null parts of a (year, quarter, month)
YearsNamed(y, q, m) ==
  {y[i] : i \in 1..Len(y)} \cup {YearOf(q[i]) : i \in 1..Len(q)}
    \cup {YearOf(m[i]) : i \in 1..Len(m)}

Inconsistent(y, q, m) == Cardinality(YearsNamed(y, q, m)) > 1

Satisfies(r, y, q, m) ==
  /\ y # None => r.year_int = y
  /\ q # None => r.quarter = q
  /\ m # None => r.month = m

Filtered == pc = "return" /\ call.fn = "filter_timeframe"

\* the rows kept are exactly those that satisfy every non-null criterion,
\* in table order
ExactlyTheSatisfyingRows ==
  Filtered =>
    LET Keep(r) == Satisfies(r, call.year, call.quarter, call.month)
    IN  /\ ret.rows = SelectSeq(df, Keep)
        /\ (call.year = None /\ call.quarter = None /\ call.month = None)
             => ret.rows = df

\* C8 as stated: an inconsistent combination returns no rows
C8_InconsistentReturnsNothing ==
  (Filtered /\ Inconsistent(call.year, call.quarter, call.month))
    => ret.rows = <<>>

\* C8, amended: filter_timeframe returns exactly the rows satisfying all
\* non-null criteria, every row when all are null, no rows for an
\* inconsistent combination when no row of the table itself names two
\* different years, and leaves the table unchanged
C8_FilterTimeframe ==
  /\ [](/\ ExactlyTheSatisfyingRows
        /\ (/\ Filtered
            /\ Inconsistent(call.year, call.quarter, call.month)
            /\ \A i \in 1..Len(df) :
                 ~Inconsistent(df[i].year_int, df[i].quarter, df[i].month))
             => ret.rows = <<>>)
  /\ [][df' = df]_vars

C8_Witness ==
  /\ Filtered
  /\ call.year = Some(2024)
  /\ call.quarter = Some("2024-Q4")
  /\ Len(df) = 2
  /\ Len(ret.rows) = 1

(***************************************************************************)
(* SpecPnl: pnl                                                            *)
(***************************************************************************)
ProfitValues == {-1, 1, 2, Pow2(MantissaBits) - 1, Pow2(MantissaBits) + 2}

LedgerTypes == {None, Some("revenue"), Some("expenses"), Some("other")}

LedgerRows ==
  {Row(Some(<<"a">>), None, lt, Some("g1"), v, Some(2024), Some("2024-Q4"),
       Some("2024-M12")) : lt \in LedgerTypes, v \in ProfitValues}

InitPnl ==
  /\ df \in SeqsUpTo(LedgerRows, MaxLedger)
  /\ call = [fn |-> "pnl"]
  /\ Pending

PnlCall ==
  /\ pc = "call"
  /\ call.fn = "pnl"
  /\ ret' = pnl(df)
  /\ pc' = "return"
  /\ UNCHANGED <<df, session, state, trace, before, turns, nextId, call>>

NextPnl == PnlCall

SpecPnl == InitPnl /\ [][NextPnl]_vars

PnlReturned == pc = "return" /\ call.fn = "pnl"

OnlyRevenueAndExpenses ==
  \A i \in 1..Len(df) : df[i].ledger_type \in {Some("revenue"), Some("expenses")}

\* the sum of the profits of the rows with ledger type lt (any, when lt is
\* "all"), as a real number
RECURSIVE ExactSum(_, _)
ExactSum(t, lt) ==
  IF t = <<>> THEN 0
  ELSE LET r == t[Len(t)]
           rest == ExactSum(SubSeq(t, 1, Len(t) - 1), lt)
       IN  IF lt = "all" \/ r.ledger_type = Some(lt) THEN rest + r.profit ELSE rest

RECURSIVE Magnitude(_)
Magnitude(t) == IF t = <<>> THEN 0 ELSE Abs(Head(t).profit) + Magnitude(Tail(t))

\* no sum over any subset of the rows needs rounding
NoRounding == Magnitude(df) < Pow2(MantissaBits)

CompareRows ==
  {Row(p, None, Some(lt), Some("g1"), IF lt = "revenue" THEN 2 ELSE -1, y,
       None, None) :
     p \in {None, Some(<<"a">>), Some(<<"b">>)},
     lt \in {"revenue", "expenses"},
     y \in {Some(2024), Some(2025)}}

InitCompare ==
  /\ df \in SeqsUpTo(CompareRows, MaxRows)
  /\ call \in {[fn |-> "compare_properties", property_names |-> ns,
                year |-> y, quarter |-> None, month |-> None] :
                 ns \in SeqsUpTo({<<"a">>, <<"b">>, <<>>}, MaxProps),
                 y \in {None, Some(2024)}}
  /\ Pending

CompareCall ==
  /\ pc = "call"
  /\ call.fn = "compare_properties"
  /\ ret' = compare_properties(df, call.property_names, call.year,
                               call.quarter, call.month)
  /\ pc' = "return"
  /\ UNCHANGED <<df, session, state, trace, before, turns, nextId, call>>

NextCompare == CompareCall

SpecCompare == InitCompare /\ [][NextCompare]_vars

Compared == pc = "return" /\ call.fn = "compare_properties"

\* C5: compare_properties raises ValueError for fewer than 2 names; for 2
\* or more it returns one entry per name in the order given, duplicates
\* kept, count the number of names, each entry carrying the revenue,
\* expenses and net of property_summary of that name over the same period
C5_CompareProperties ==
  Compared =>
    LET names == call.property_names
    IN  IF Len(names) < 2 THEN ret = ValueError
        ELSE /\ DOMAIN ret = {"properties", "count"}
             /\ ret.count = Len(names)
             /\ Len(ret.properties) = Len(names)
             /\ \A i \in 1..Len(names) :
                  LET e == ret.properties[i]
                      s == property_summary(df, Some(names[i]), call.year,
                                            call.quarter, call.month)
                  IN  /\ e.property = names[i]
                      /\ e.revenue = s.revenue
                      /\ e.expenses = s.expenses
                      /\ e.net = s.net

C5_Witness ==
  /\ Compared
  /\ call.property_names = << <<"a">>, <<"a">> >>
  /\ call.year = Some(2024)
  /\ Len(df) = 2
  /\ df[1].year_int = Some(2025)
  /\ df[1].property_name = Some(<<"a">>)
  /\ df[2].year_int = Some(2024)
  /\ df[2].property_name = Some(<<"a">>)
  /\ ret.count = 2
  /\ ret.properties[2].net = df[2].profit

====
